---- MODULE Spec2Model ----
(***************************************************************************)
(* Location association of devices (openwisp_controller.geo.api): the      *)
(* rows of Location, FloorPlan and DeviceLocation, and the HTTP endpoints  *)
(* that read and write them.  One action per request; the single-device    *)
(* endpoint is also given step by step, for concurrent requests.           *)
(***************************************************************************)
EXTENDS Integers, FiniteSets, Sequences, TLC

\* ------------------------------------------------------------------ bounds
MaxLoc == 2
MaxFp == 1
MaxDl == 2

LocIds == 1..MaxLoc
FpIds == 1..MaxFp
DlIds == 1..MaxDl

\* Record constructors list their fields in one fixed order throughout:
\* organization, key, name, qs, id, S, device, location, user, verb, pk,
\* type, is_mobile, address, geometry, floorplan, indoor, coordinates, given,
\* loc, floor, null, has, body, dl, status, endpoint, had_dl, first_get,
\* second_get, orgs, had_fp, listed, after_put, pc, tx.

\* null of a string column, null of a foreign key, null of a point column
None == "None"
NoId == 0
NoPoint == << >>

\* ------------------------------------------------- external collaborators
\* Device rows (owned by the config app): two devices of two organizations,
\* and one primary key that names no row.
Devices == {"d1", "d2"}
NoDevice == "dx"
DeviceIds == Devices \cup {NoDevice}
Device(d) ==
    IF d = "d1" THEN [organization |-> "org_a", key |-> "k1", name |-> "d1"]
                ELSE [organization |-> "org_b", key |-> "k2", name |-> "d2"]

\* Callers: no credential, an operator of org_a with every model permission,
\* an operator of org_a who may only view, and a superuser.
Users == {"anon", "operator", "viewer", "admin"}
is_authenticated(u) == u # "anon"
is_superuser(u) == u = "admin"
organizations_managed(u) ==
    IF u \in {"operator", "viewer"} THEN {"org_a"} ELSE {}
user_permissions(u) ==
    CASE u \in {"operator", "admin"} -> {"view", "add", "change", "delete"}
      [] u = "viewer" -> {"view"}
      [] OTHER -> {}

\* The QUERY_STRING of a request, as its tokens.
QNone == << >>
QEmpty == <<"key", "=">>
QOther == <<"api", "key", "=", "k1">>
QKey(k) == <<"key", "=", k>>
Queries == {QNone, QEmpty, QOther, QKey("k1"), QKey("k2")}

\* 'key=' in QUERY_STRING
contains_key_eq(qs) ==
    \E i \in 1..(Len(qs) - 1) : qs[i] = "key" /\ qs[i + 1] = "="

\* request.query_params.get('key')
query_params_get_key(qs) ==
    IF Len(qs) >= 2 /\ qs[1] = "key" /\ qs[2] = "="
    THEN (IF Len(qs) >= 3 THEN qs[3] ELSE "")
    ELSE None

\* Python truth of a string or None
truthy(v) == v # None /\ v # ""

Verbs == {"GET", "PUT", "PATCH", "DELETE"}

\* ------------------------------------------------------------------- state
VARIABLES
    locations,        \* the Location rows
    floorplans,       \* the FloorPlan rows
    devicelocations,  \* the DeviceLocation rows
    resp,             \* the last request and its outcome
    proc              \* the requests in progress on the single-device endpoint

store == <<locations, floorplans, devicelocations>>
vars == <<locations, floorplans, devicelocations, resp, proc>>

Store == [locations |-> locations, floorplans |-> floorplans,
          devicelocations |-> devicelocations]

IdsOf(table) == {r.id : r \in table}
Row(table, i) == CHOOSE r \in table : r.id = i
HasFree(table, ids) == IdsOf(table) # ids
FreeId(table, ids) ==
    CHOOSE i \in ids : i \notin IdsOf(table)
                       /\ \A j \in ids : j < i => j \in IdsOf(table)

\* save() of a new row, save() of an existing row, delete() of rows
Insert(table, ids, row) == table \cup {[row EXCEPT !.id = FreeId(table, ids)]}
Update(table, row) == {r \in table : r.id # row.id} \cup {row}
Delete(table, gone) == {r \in table : r.id \notin gone}

\* ------------------------------------------------------------ row helpers
LocFields == {"name", "type", "is_mobile", "address", "geometry"}

DlsOfDevice(S, d) == {r.id : r \in {x \in S.devicelocations : x.device = d}}
FpsOfLocation(S, l) == {r.id : r \in {x \in S.floorplans : x.location = l}}

\* device.devicelocation: the id of the association row of a device, or NoId
devicelocation_of(S, d) ==
    IF DlsOfDevice(S, d) # {} THEN CHOOSE i \in DlsOfDevice(S, d) : TRUE
    ELSE NoId

\* variants of DevicePermission: any non-empty key is accepted; a request
\* without key is accepted
DevicePermission_any_key(qs, obj) ==
    truthy(query_params_get_key(qs))

DevicePermission_grant_without_key(qs, obj) ==
    IF truthy(query_params_get_key(qs))
    THEN query_params_get_key(qs) = obj.key
    ELSE TRUE

\* ------------------------------------------- views.py: DevicePermission
DevicePermission_has_object_permission(qs, obj) ==
    IF truthy(query_params_get_key(qs))
    THEN query_params_get_key(qs) = obj.key
    ELSE FALSE

\* --------------------------------------- permission classes (operators)
\* openwisp_users DjangoModelPermissions: the model permission a verb needs
DjangoModelPermissions_has_permission(user, verb) ==
    CASE verb = "GET" -> ("view" \in user_permissions(user)
                          \/ "change" \in user_permissions(user))
      [] verb \in {"PUT", "PATCH"} -> "change" \in user_permissions(user)
      [] verb = "DELETE" -> "delete" \in user_permissions(user)
      [] verb = "POST" -> "add" \in user_permissions(user)
      [] OTHER -> FALSE

\* ------------------------------------------- views.py: DeviceLocationView
\* get_permissions: which permission classes decide this request
get_permissions(user, qs) ==
    IF ~is_authenticated(user) THEN {"DevicePermission"}
    ELSE IF contains_key_eq(qs) THEN {"DevicePermission"}
    ELSE {"IsAuthenticated", "DjangoModelPermissions"}

\* get_organization_queryset: the devices left by the organization filter
get_organization_queryset(user, qs, devs) ==
    IF is_authenticated(user) /\ ~truthy(query_params_get_key(qs))
    THEN {d \in devs : Device(d).organization \in organizations_managed(user)}
    ELSE devs

\* FilterByOrganizationManaged.get_queryset: a superuser is not filtered
get_queryset(user, qs) ==
    IF is_superuser(user) THEN Devices
    ELSE get_organization_queryset(user, qs, Devices)

\* APIView.check_permissions, run before the handler
check_permissions(user, qs, verb) ==
    \A p \in get_permissions(user, qs) :
        CASE p = "IsAuthenticated" -> is_authenticated(user)
          [] p = "DjangoModelPermissions" ->
                DjangoModelPermissions_has_permission(user, verb)
          [] OTHER -> TRUE

\* APIView.check_object_permissions on the Device found
check_object_permissions(user, qs, d) ==
    \A p \in get_permissions(user, qs) :
        CASE p = "DevicePermission" ->
                DevicePermission_has_object_permission(qs, Device(d))
          [] OTHER -> TRUE

\* a variant that answers 403 for a device the queryset does not hold
device_lookup_denies_unknown(user, qs, verb, pk) ==
    IF ~check_permissions(user, qs, verb) THEN 403
    ELSE IF pk \notin get_queryset(user, qs) THEN 403
    ELSE IF ~check_object_permissions(user, qs, pk) THEN 403
    ELSE 200

\* The outcome of the steps that precede the association lookup:
\* check_permissions, then super().get_object() (queryset lookup, then the
\* object permission check).  200 stands for "passed".
device_lookup(user, qs, verb, pk) ==
    IF ~check_permissions(user, qs, verb) THEN 403
    ELSE IF pk \notin get_queryset(user, qs) THEN 404
    ELSE IF ~check_object_permissions(user, qs, pk) THEN 403
    ELSE 200

\* create_devicelocation: the Location row it builds
provisioned_location(d) ==
    [organization |-> Device(d).organization, name |-> Device(d).name,
     id |-> NoId, type |-> "outdoor", is_mobile |-> TRUE,
     address |-> "", geometry |-> NoPoint]

\* a variant of the provisioned DeviceLocation row that carries a position
provisioned_devicelocation_with_indoor(d, l) ==
    [id |-> NoId, device |-> d, location |-> l, floorplan |-> NoId,
     indoor |-> "1,2"]

\* create_devicelocation: the DeviceLocation row it builds
provisioned_devicelocation(d, l) ==
    [id |-> NoId, device |-> d, location |-> l, floorplan |-> NoId,
     indoor |-> ""]

\* a variant without the one-to-one constraint
devicelocation_not_unique(S, d) == TRUE

\* dl.full_clean() and dl.save(): device.devicelocation is a one-to-one
\* reverse accessor, so a second row for the same device is refused.
devicelocation_unique(S, d) == DlsOfDevice(S, d) = {}

create_devicelocation(S, d) ==
    LET l == FreeId(S.locations, LocIds)
        S1 == [S EXCEPT !.locations = Insert(@, LocIds, provisioned_location(d))]
    IN [S1 EXCEPT !.devicelocations =
            Insert(@, DlIds, provisioned_devicelocation(d, l))]

\* variants of the association lookup: only GET answers 404; every verb
\* answers 404
get_object_404_get_only(verb) == verb = "GET"

get_object_404_every_verb(verb) == TRUE

\* get_object, after the device was found: the verbs that answer 404 when
\* the device has no association, and the verb that creates one
get_object_404(verb) == verb \in {"GET", "PATCH", "DELETE"}
get_object_creates(verb) == verb = "PUT"

\* a variant that looks the association up before the object permission check
get_object_status_dl_first(S, user, qs, verb, pk) ==
    IF ~check_permissions(user, qs, verb) THEN 403
    ELSE IF pk \notin get_queryset(user, qs) THEN 404
    ELSE IF devicelocation_of(S, pk) = NoId /\ get_object_404(verb) THEN 404
    ELSE IF ~check_object_permissions(user, qs, pk) THEN 403
    ELSE 200

\* get_object(): the device lookup with its permission checks, then the
\* association lookup.  200 stands for "an association is returned".
get_object_status(S, user, qs, verb, pk) ==
    LET st == device_lookup(user, qs, verb, pk)
    IN IF st # 200 THEN st
       ELSE IF devicelocation_of(S, pk) = NoId /\ get_object_404(verb) THEN 404
       ELSE 200

\* ------------------------------------------------------- request payloads
Point(x, y) == [type |-> "Point", coordinates |-> <<x, y>>]
NullGeometry == [type |-> "null", coordinates |-> << >>]

\* a variant that stores the coordinates in the other order
geometry_to_internal_swapped(g) ==
    IF g.type = "Point" THEN <<g.coordinates[2], g.coordinates[1]>> ELSE NoPoint

\* GeoJSON geometry of a payload -> stored point
geometry_to_internal(g) == IF g.type = "Point" THEN g.coordinates ELSE NoPoint

\* stored point -> GeoJSON geometry of a response
geometry_to_representation(p) ==
    IF p = NoPoint THEN [type |-> "null", coordinates |-> << >>]
    ELSE [type |-> "Point", coordinates |-> p]

\* the nested location of a response of the single-device endpoint
location_representation(loc) ==
    [name |-> loc.name, type |-> loc.type, is_mobile |-> loc.is_mobile,
     address |-> loc.address,
     geometry |-> geometry_to_representation(loc.geometry)]

\* A location payload: the keys given and their values.
LocationPayload(given, org, name, type, is_mobile, address, geometry) ==
    [organization |-> org, name |-> name, type |-> type,
     is_mobile |-> is_mobile, address |-> address, geometry |-> geometry,
     given |-> given]
NoPayload == LocationPayload({}, None, "", "outdoor", FALSE, "", NullGeometry)
Full1 == LocationPayload(LocFields, None, "n1", "outdoor", FALSE, "a1", Point(1, 2))
Full2 == LocationPayload(LocFields, None, "n1", "indoor", FALSE, "a1", Point(1, 2))
TypeOut == LocationPayload({"type"}, None, "", "outdoor", FALSE, "", NullGeometry)
\* a payload with nothing but a new geometry
GeomOnly == LocationPayload({"geometry"}, None, "", "outdoor", FALSE, "", Point(5, 6))
\* a complete payload that also names an organization
WithOrg(payload, org) ==
    [payload EXCEPT !.given = @ \cup {"organization"}, !.organization = org]

\* A request body: the keys it has; floorplan and indoor may be null.
BodyOn(keys, loc, fp_null, floor, fp_location, indoor) ==
    [location |-> loc,
     floorplan |-> [location |-> fp_location, floor |-> floor,
                    null |-> fp_null],
     indoor |-> indoor, has |-> keys]
Body(keys, loc, fp_null, floor, indoor) ==
    BodyOn(keys, loc, fp_null, floor, NoId, indoor)
BEmpty == Body({}, NoPayload, TRUE, 0, None)
BFull1 == Body({"location"}, Full1, TRUE, 0, None)
BFull2 == Body({"location"}, Full2, TRUE, 0, None)
BTypeOut == Body({"location"}, TypeOut, TRUE, 0, None)
BGeom == Body({"location"}, GeomOnly, TRUE, 0, None)
\* a complete payload that names the other organization
BFull1Org == Body({"location"}, WithOrg(Full1, "org_b"), TRUE, 0, None)
BFp == Body({"floorplan", "indoor"}, NoPayload, FALSE, 1, "1,2")
BFpNull == Body({"floorplan"}, NoPayload, TRUE, 0, None)

\* a variant of the null test: a null floorplan is taken as no floorplan key
has_floorplan_null_ignored(body) == FALSE

has_location(body) == "location" \in body.has
has_floorplan_payload(body) == "floorplan" \in body.has /\ ~body.floorplan.null
has_floorplan_null(body) == "floorplan" \in body.has /\ body.floorplan.null
has_indoor_value(body) == "indoor" \in body.has /\ body.indoor # None

\* a variant of validate() that lets the payload name the organization
nested_location_data_payload_org(loc, payload, device_org) ==
    [organization |-> IF "organization" \in payload.given
                      THEN payload.organization ELSE device_org,
     name |-> IF "name" \in payload.given THEN payload.name ELSE loc.name,
     id |-> loc.id,
     type |-> IF "type" \in payload.given THEN payload.type ELSE loc.type,
     is_mobile |-> IF "is_mobile" \in payload.given
                   THEN payload.is_mobile ELSE loc.is_mobile,
     address |-> IF "address" \in payload.given
                 THEN payload.address ELSE loc.address,
     geometry |-> IF "geometry" \in payload.given
                  THEN geometry_to_internal(payload.geometry) ELSE loc.geometry]

\* a variant of validate() that builds the Location from the payload alone
nested_location_data_from_payload(loc, payload, device_org) ==
    [organization |-> device_org, name |-> payload.name, id |-> loc.id,
     type |-> payload.type, is_mobile |-> payload.is_mobile,
     address |-> payload.address,
     geometry |-> geometry_to_internal(payload.geometry)]

\* ------------------------------- serializers.py: nested location payload
\* DeviceLocationNestedSerializer.validate: organization comes from the
\* serializer context (the device), never from the payload; the fields given
\* replace those of the Location, the others keep their value.
nested_location_data(loc, payload, device_org) ==
    [organization |-> device_org,
     name |-> IF "name" \in payload.given THEN payload.name ELSE loc.name,
     id |-> loc.id,
     type |-> IF "type" \in payload.given THEN payload.type ELSE loc.type,
     is_mobile |-> IF "is_mobile" \in payload.given
                   THEN payload.is_mobile ELSE loc.is_mobile,
     address |-> IF "address" \in payload.given
                 THEN payload.address ELSE loc.address,
     geometry |-> IF "geometry" \in payload.given
                  THEN geometry_to_internal(payload.geometry) ELSE loc.geometry]

\* a variant of the cascade that deletes the FloorPlans and the associations
\* that used them, and leaves the other associations of the Location alone
cascade_outdoor_floorplans_only(S, l) ==
    [S EXCEPT
       !.floorplans = Delete(@, FpsOfLocation(S, l)),
       !.devicelocations =
            {r \in @ : r.floorplan \notin FpsOfLocation(S, l)}]

\* ------------------- the consistency rules of a type change (cascade)
\* The Location l became outdoor: its FloorPlans are deleted and every
\* DeviceLocation on it loses floorplan and indoor.
cascade_outdoor(S, l) ==
    [S EXCEPT
       !.floorplans = Delete(@, FpsOfLocation(S, l)),
       !.devicelocations =
            {IF r.location = l
             THEN [r EXCEPT !.floorplan = NoId, !.indoor = None] ELSE r
             : r \in {x \in S.devicelocations :
                        x.location = l \/ x.floorplan \notin FpsOfLocation(S, l)}}]

\* ------------------ the serializer of the single-device endpoint
\* is_valid(): PUT needs the complete nested location; a floorplan payload
\* needs an indoor location (after the type change of the same request);
\* indoor needs a floorplan.
devicelocation_is_valid(S, dl, body, partial) ==
    LET row == Row(S.devicelocations, dl)
        loc == Row(S.locations, row.location)
        newtype == IF has_location(body) /\ "type" \in body.location.given
                   THEN body.location.type ELSE loc.type
        has_fp == IF "floorplan" \in body.has
                  THEN ~body.floorplan.null
                  ELSE row.floorplan # NoId /\ newtype = "indoor"
    IN /\ (~partial => has_location(body))
       /\ (has_location(body) /\ ~partial => LocFields \subseteq body.location.given)
       /\ (has_floorplan_payload(body) => newtype = "indoor")
       /\ (has_indoor_value(body) => has_fp)

\* update(): applied only to validated data
devicelocation_update(S, dl, body) ==
    LET row == Row(S.devicelocations, dl)
        l == row.location
        loc == Row(S.locations, l)
        newloc == IF has_location(body)
                  THEN nested_location_data(loc, body.location,
                                            Device(row.device).organization)
                  ELSE loc
        S1 == [S EXCEPT !.locations = Update(@, newloc)]
        S2 == IF loc.type = "indoor" /\ newloc.type = "outdoor"
              THEN cascade_outdoor(S1, l) ELSE S1
        row2 == Row(S2.devicelocations, dl)
        f == FreeId(S2.floorplans, FpIds)
        S3 == CASE has_floorplan_null(body) ->
                     [S2 EXCEPT !.devicelocations =
                        Update(@, [row2 EXCEPT !.floorplan = NoId,
                                               !.indoor = None])]
                [] has_floorplan_payload(body) /\ row2.floorplan # NoId ->
                     [S2 EXCEPT !.floorplans =
                        Update(@, [Row(S2.floorplans, row2.floorplan)
                                     EXCEPT !.floor = body.floorplan.floor])]
                [] has_floorplan_payload(body) /\ row2.floorplan = NoId ->
                     [S2 EXCEPT
                        !.floorplans = Insert(@, FpIds,
                            [organization |-> newloc.organization,
                             id |-> NoId, location |-> l,
                             floor |-> body.floorplan.floor]),
                        !.devicelocations =
                            Update(@, [row2 EXCEPT !.floorplan = f])]
                [] OTHER -> S2
        row3 == Row(S3.devicelocations, dl)
    IN IF "indoor" \in body.has
       THEN [S3 EXCEPT !.devicelocations =
                Update(@, [row3 EXCEPT !.indoor = body.indoor])]
       ELSE S3

\* whether update() of this body adds a FloorPlan row
update_needs_floorplan_row(S, dl, body) ==
    /\ has_floorplan_payload(body)
    /\ Row(S.devicelocations, dl).floorplan = NoId

\* a variant of the destroy that takes the Location and its FloorPlans along
devicelocation_delete_with_location(S, dl) ==
    LET l == Row(S.devicelocations, dl).location
    IN [locations |-> Delete(S.locations, {l}),
        floorplans |-> Delete(S.floorplans, FpsOfLocation(S, l)),
        devicelocations |-> Delete(S.devicelocations, {dl})]

\* DestroyModelMixin.perform_destroy(): instance.delete()
devicelocation_delete(S, dl) ==
    [S EXCEPT !.devicelocations = Delete(@, {dl})]

\* a variant that provisions the association of a PUT before the checks
device_location_view_provision_first(S, user, qs, verb, pk, body) ==
    LET S0 == IF /\ verb = "PUT" /\ pk \in Devices
                 /\ devicelocation_of(S, pk) = NoId
              THEN create_devicelocation(S, pk) ELSE S
        st == get_object_status(S0, user, qs, verb, pk)
    IN [S |-> S0, status |-> st]

\* -------------------------------- the single-device endpoint, one request
\* RetrieveUpdateDestroyAPIView over DeviceLocationView: the handler calls
\* get_object() first, then serves the verb.
device_location_view(S, user, qs, verb, pk, body) ==
    LET st == get_object_status(S, user, qs, verb, pk)
    IN IF st # 200 THEN [S |-> S, status |-> st]
       ELSE
       LET S1 == IF devicelocation_of(S, pk) = NoId
                 THEN create_devicelocation(S, pk) ELSE S
           dl == devicelocation_of(S1, pk)
       IN CASE verb = "GET" -> [S |-> S1, status |-> 200]
            [] verb = "DELETE" ->
                 [S |-> devicelocation_delete(S1, dl), status |-> 204]
            [] OTHER ->
                 IF ~devicelocation_is_valid(S1, dl, body, verb = "PATCH")
                 THEN [S |-> S1, status |-> 400]
                 ELSE [S |-> devicelocation_update(S1, dl, body), status |-> 200]

\* a variant of the organization filter that lets every row through
filter_by_organization_unfiltered(user, table) == table

\* ------------------------------------ views.py: ProtectedAPIMixin views
\* FilterByOrganizationManaged on rows that carry an organization
filter_by_organization_managed(user, table) ==
    IF is_superuser(user) THEN table
    ELSE {r \in table : r.organization \in organizations_managed(user)}

\* IsAuthenticated and DjangoModelPermissions, then the queryset lookup of a
\* detail view (id = NoId for a list view).  200 stands for "passed".
protected_lookup(user, verb, table, id) ==
    IF ~is_authenticated(user) THEN 403
    ELSE IF ~DjangoModelPermissions_has_permission(user, verb) THEN 403
    ELSE IF id # NoId /\ id \notin IdsOf(filter_by_organization_managed(user, table))
         THEN 404
    ELSE 200

\* ------------------------------------ serializers.py: FloorPlanSerializer
FpBody(keys, location, floor) ==
    BodyOn(keys, NoPayload, FALSE, floor, location, None)

\* FloorPlan.clean(): a floor-plan belongs to an indoor location
floorplan_clean(S, row) ==
    /\ row.location \in IdsOf(S.locations)
    /\ Row(S.locations, row.location).type = "indoor"

\* the row of Meta.model(**data)
floorplan_from_data(S, body) ==
    [organization |-> IF "location" \in body.has
                      THEN Row(S.locations, body.floorplan.location).organization
                      ELSE None,
     id |-> NoId,
     location |-> IF "location" \in body.has THEN body.floorplan.location ELSE NoId,
     floor |-> body.floorplan.floor]

\* the related field `location` only offers the locations the user manages
floorplan_fields_valid(S, user, body, partial) ==
    /\ (~partial => {"floor", "location"} \subseteq body.has)
    /\ ("location" \in body.has =>
            body.floorplan.location
                \in IdsOf(filter_by_organization_managed(user, S.locations)))

\* validate(): full_clean() of self.instance when there is one, else of a
\* new row built from the data
FloorPlanSerializer_validate(S, instance, body) ==
    IF instance # NoId
    THEN floorplan_clean(S, Row(S.floorplans, instance))
    ELSE floorplan_clean(S, floorplan_from_data(S, body))

\* ModelSerializer.update(): the validated data replace the fields
floorplan_update(S, instance, body) ==
    LET row == Row(S.floorplans, instance)
        new == [row EXCEPT
                  !.floor = IF "floor" \in body.has THEN body.floorplan.floor ELSE @,
                  !.location = IF "location" \in body.has
                               THEN body.floorplan.location ELSE @,
                  !.organization =
                      IF "location" \in body.has
                      THEN Row(S.locations, body.floorplan.location).organization
                      ELSE @]
    IN [S EXCEPT !.floorplans = Update(@, new)]

\* deleting a FloorPlan takes the DeviceLocation rows that reference it along
floorplan_delete(S, f) ==
    [S EXCEPT !.floorplans = Delete(@, {f}),
              !.devicelocations = {r \in @ : r.floorplan # f}]

floorplan_view(S, user, verb, id, body) ==
    LET st == protected_lookup(user, verb, S.floorplans, id)
    IN IF st # 200 THEN [S |-> S, status |-> st]
       ELSE CASE verb = "GET" -> [S |-> S, status |-> 200]
              [] verb = "DELETE" -> [S |-> floorplan_delete(S, id), status |-> 204]
              [] verb = "POST" ->
                   IF /\ floorplan_fields_valid(S, user, body, FALSE)
                      /\ FloorPlanSerializer_validate(S, NoId, body)
                   THEN [S |-> [S EXCEPT !.floorplans =
                                  Insert(@, FpIds, floorplan_from_data(S, body))],
                         status |-> 201]
                   ELSE [S |-> S, status |-> 400]
              [] OTHER ->
                   IF /\ floorplan_fields_valid(S, user, body, verb = "PATCH")
                      /\ FloorPlanSerializer_validate(S, id, body)
                   THEN [S |-> floorplan_update(S, id, body), status |-> 200]
                   ELSE [S |-> S, status |-> 400]

\* ------------------------------------------ the Location endpoints
location_from_data(loc, payload) ==
    [nested_location_data(loc, payload, loc.organization) EXCEPT
        !.organization = IF "organization" \in payload.given
                         THEN payload.organization ELSE @]

BlankLocation ==
    [organization |-> None, name |-> "", id |-> NoId, type |-> "outdoor",
     is_mobile |-> FALSE, address |-> "", geometry |-> NoPoint]

\* a variant of is_valid() without the rule on the nested floorplan
location_is_valid_any_type(S, user, instance, body, partial) ==
    /\ (~partial => LocFields \cup {"organization"} \subseteq body.location.given)
    /\ ("organization" \in body.location.given =>
           \/ is_superuser(user)
           \/ body.location.organization \in organizations_managed(user))

\* is_valid(): create and PUT need every field; the organization must be one
\* the user manages; a nested floorplan needs an indoor location
location_is_valid(S, user, instance, body, partial) ==
    LET loc == IF instance = NoId THEN BlankLocation
               ELSE Row(S.locations, instance)
        new == location_from_data(loc, body.location)
    IN /\ (~partial => LocFields \cup {"organization"} \subseteq body.location.given)
       /\ ("organization" \in body.location.given =>
              \/ is_superuser(user)
              \/ body.location.organization \in organizations_managed(user))
       /\ (has_floorplan_payload(body) => new.type = "indoor")

\* the nested floorplan of a Location: updated when the Location has one,
\* created otherwise
location_save_floorplan(S, l, body) ==
    IF ~has_floorplan_payload(body) THEN S
    ELSE IF FpsOfLocation(S, l) # {}
    THEN LET f == CHOOSE i \in FpsOfLocation(S, l) :
                      \A j \in FpsOfLocation(S, l) : i <= j
         IN [S EXCEPT !.floorplans =
                Update(@, [Row(S.floorplans, f) EXCEPT
                              !.floor = body.floorplan.floor])]
    ELSE [S EXCEPT !.floorplans =
            Insert(@, FpIds,
                   [organization |-> Row(S.locations, l).organization,
                    id |-> NoId, location |-> l,
                    floor |-> body.floorplan.floor])]

location_create(S, body) ==
    LET l == FreeId(S.locations, LocIds)
        S1 == [S EXCEPT !.locations =
                 Insert(@, LocIds, location_from_data(BlankLocation, body.location))]
    IN location_save_floorplan(S1, l, body)

location_update(S, l, body) ==
    LET loc == Row(S.locations, l)
        new == location_from_data(loc, body.location)
        S1 == [S EXCEPT !.locations = Update(@, new)]
        S2 == IF loc.type = "indoor" /\ new.type = "outdoor"
              THEN cascade_outdoor(S1, l) ELSE S1
    IN location_save_floorplan(S2, l, body)

\* deleting a Location takes its FloorPlans and its DeviceLocations along
location_delete(S, l) ==
    [S EXCEPT !.locations = Delete(@, {l}),
              !.floorplans = Delete(@, FpsOfLocation(S, l)),
              !.devicelocations = {r \in @ : r.location # l
                                             /\ r.floorplan \notin FpsOfLocation(S, l)}]

location_view(S, user, verb, id, body) ==
    LET st == protected_lookup(user, verb, S.locations, id)
    IN IF st # 200 THEN [S |-> S, status |-> st]
       ELSE CASE verb = "GET" -> [S |-> S, status |-> 200]
              [] verb = "DELETE" -> [S |-> location_delete(S, id), status |-> 204]
              [] verb = "POST" ->
                   IF location_is_valid(S, user, NoId, body, FALSE)
                   THEN [S |-> location_create(S, body), status |-> 201]
                   ELSE [S |-> S, status |-> 400]
              [] OTHER ->
                   IF location_is_valid(S, user, id, body, verb = "PATCH")
                   THEN [S |-> location_update(S, id, body), status |-> 200]
                   ELSE [S |-> S, status |-> 400]

\* ---------------------------------------------------- what a request touched
\* The organizations of the Location and FloorPlan rows a request changed,
\* and of those the association it served points to.
Changed(t1, t2) == (t1 \ t2) \cup (t2 \ t1)
OrgsOfAssociation(S, dl) ==
    IF dl \notin IdsOf(S.devicelocations) THEN {}
    ELSE LET row == Row(S.devicelocations, dl)
         IN {r.organization : r \in {x \in S.locations : x.id = row.location}}
            \cup {r.organization : r \in {x \in S.floorplans : x.id = row.floorplan}}
touched_orgs(S, S2, served) ==
    {r.organization : r \in Changed(S.locations, S2.locations)}
    \cup {r.organization : r \in Changed(S.floorplans, S2.floorplans)}
    \cup UNION {OrgsOfAssociation(S, r.id) \cup OrgsOfAssociation(S2, r.id)
                : r \in Changed(S.devicelocations, S2.devicelocations)}
    \cup UNION {OrgsOfAssociation(S, dl) \cup OrgsOfAssociation(S2, dl) : dl \in served}

\* The rows a request would have to add fit the tables of the model.
device_location_fits(S, user, qs, verb, pk, body) ==
    device_lookup(user, qs, verb, pk) = 200 =>
        LET dl0 == devicelocation_of(S, pk)
        IN IF dl0 = NoId
           THEN get_object_creates(verb) =>
                  /\ HasFree(S.locations, LocIds)
                  /\ HasFree(S.devicelocations, DlIds)
                  /\ (has_floorplan_payload(body) => HasFree(S.floorplans, FpIds))
           ELSE (verb \in {"PUT", "PATCH"}
                 /\ update_needs_floorplan_row(S, dl0, body))
                  => HasFree(S.floorplans, FpIds)

HadDl(S, pk) == pk \in Devices /\ devicelocation_of(S, pk) # NoId

\* resp.had_fp: the Location addressed was indoor and had a FloorPlan; on
\* the single-device endpoint, the DeviceLocation addressed had a floorplan
HadFp(S, l) ==
    /\ l \in IdsOf(S.locations)
    /\ Row(S.locations, l).type = "indoor"
    /\ FpsOfLocation(S, l) # {}

NoResp ==
    [qs |-> QNone, id |-> NoId, user |-> "anon", verb |-> "GET",
     pk |-> NoDevice, body |-> BEmpty, status |-> 0, endpoint |-> "none",
     had_dl |-> FALSE, first_get |-> FALSE, second_get |-> FALSE,
     orgs |-> {}, had_fp |-> FALSE, listed |-> {}, after_put |-> FALSE]

Procs == {1, 2}
IdleProc ==
    [pk |-> NoDevice, loc |-> NoId, body |-> BEmpty, dl |-> NoId,
     status |-> 0, pc |-> "idle", tx |-> << >>]
Idle == [p \in Procs |-> IdleProc]

Init ==
    /\ locations = {}
    /\ floorplans = {}
    /\ devicelocations = {}
    /\ resp = NoResp
    /\ proc = Idle

SetStore(S) ==
    /\ locations' = S.locations
    /\ floorplans' = S.floorplans
    /\ devicelocations' = S.devicelocations

\* resp.first_get: this request is a GET with the device's key that found
\* the device without an association
IsFirstGet(S, qs, verb, pk) ==
    /\ verb = "GET" /\ pk \in Devices
    /\ qs = QKey(Device(pk).key)
    /\ ~HadDl(S, pk)

\* resp.second_get: this request is a GET with the device's key that comes
\* right after such a GET which found the device without an association
IsSecondGet(qs, verb, pk) ==
    /\ verb = "GET" /\ pk \in Devices
    /\ qs = QKey(Device(pk).key)
    /\ resp.endpoint = "device_location" /\ resp.first_get /\ resp.pk = pk

Granted(status) == status \in {200, 201, 204}

DeviceLocationRequest(user, qs, verb, pk, body) ==
    /\ device_location_fits(Store, user, qs, verb, pk, body)
    /\ LET r == device_location_view(Store, user, qs, verb, pk, body)
       IN /\ SetStore(r.S)
          /\ resp' = [NoResp EXCEPT
                        !.endpoint = "device_location", !.user = user,
                        !.qs = qs, !.verb = verb, !.pk = pk, !.body = body,
                        !.status = r.status, !.had_dl = HadDl(Store, pk),
                        !.first_get = IsFirstGet(Store, qs, verb, pk),
                        !.second_get = IsSecondGet(qs, verb, pk),
                        !.orgs = IF Granted(r.status)
                                 THEN touched_orgs(Store, r.S,
                                        DlsOfDevice(Store, pk) \cup DlsOfDevice(r.S, pk))
                                 ELSE {},
                        !.had_fp = /\ HadDl(Store, pk)
                                   /\ Row(devicelocations,
                                          devicelocation_of(Store, pk)).floorplan # NoId,
                        \* a GET right after a served PUT of a complete
                        \* payload on the same device
                        !.after_put = /\ verb = "GET"
                                      /\ resp.endpoint = "device_location"
                                      /\ resp.verb = "PUT" /\ resp.pk = pk
                                      /\ resp.status = 200]
    /\ UNCHANGED proc

\* the rows a Location request adds fit the tables of the model
location_fits(S, user, verb, id, body) ==
    /\ (verb = "POST" => HasFree(S.locations, LocIds))
    /\ (has_floorplan_payload(body) /\ (verb = "POST" \/ FpsOfLocation(S, id) = {})
            => HasFree(S.floorplans, FpIds))

LocationRequest(user, verb, id, body) ==
    /\ location_fits(Store, user, verb, id, body)
    /\ LET r == location_view(Store, user, verb, id, body)
       IN /\ SetStore(r.S)
          /\ resp' = [NoResp EXCEPT
                        !.endpoint = "location", !.user = user, !.verb = verb,
                        !.id = id, !.body = body, !.status = r.status,
                        !.orgs = IF Granted(r.status)
                                 THEN touched_orgs(Store, r.S, {})
                                      \cup {x.organization :
                                              x \in {y \in locations : y.id = id}}
                                 ELSE {},
                        !.had_fp = HadFp(Store, id)]
    /\ UNCHANGED proc

FloorPlanRequest(user, verb, id, body) ==
    /\ (verb = "POST" => HasFree(floorplans, FpIds))
    /\ LET r == floorplan_view(Store, user, verb, id, body)
       IN /\ SetStore(r.S)
          /\ resp' = [NoResp EXCEPT
                        !.endpoint = "floorplan", !.user = user, !.verb = verb,
                        !.id = id, !.body = body, !.status = r.status,
                        !.orgs = IF Granted(r.status)
                                 THEN touched_orgs(Store, r.S, {})
                                      \cup {x.organization :
                                              x \in {y \in floorplans : y.id = id}}
                                 ELSE {}]
    /\ UNCHANGED proc

\* ------------------------------------------------ views.py: list views
ListEndpoints == {"list_location", "list_floorplan", "location_geojson"}

\* the queryset of a list view, before the organization filter
list_queryset(S, endpoint) ==
    CASE endpoint = "list_location" -> S.locations
      [] endpoint = "list_floorplan" -> S.floorplans
      [] OTHER -> {l \in S.locations :
                     \E r \in S.devicelocations : r.location = l.id}

\* the permission classes of a list view
list_status(user, endpoint) ==
    IF ~is_authenticated(user) THEN 403
    ELSE IF /\ endpoint # "location_geojson"
            /\ ~DjangoModelPermissions_has_permission(user, "GET") THEN 403
    ELSE 200

ListRequest(users) ==
    /\ \E user \in users, endpoint \in ListEndpoints :
         resp' = [NoResp EXCEPT
                    !.endpoint = endpoint, !.user = user, !.verb = "GET",
                    !.status = list_status(user, endpoint),
                    !.listed =
                        IF list_status(user, endpoint) = 200
                        THEN IdsOf(filter_by_organization_managed(
                                      user, list_queryset(Store, endpoint)))
                        ELSE {}]
    /\ UNCHANGED <<store, proc>>

\* LocationDeviceList: the devices listed for a Location.  The parent
\* Location is looked up among the Locations the caller manages; the devices
\* are those with an association on it.
LocationDeviceList(S, user, pk) ==
    IF ~is_authenticated(user) THEN {}
    ELSE IF pk \notin IdsOf(filter_by_organization_managed(user, S.locations))
         THEN {}
    ELSE {r.device : r \in {x \in S.devicelocations : x.location = pk}}

\* The credentials of a request: the caller and the query string.
Credentials == Users \X Queries
\* The callers of the store-centred specification: the device with its own
\* key and an operator of its organization.
SomeCredentials == {<<"anon", QKey("k1")>>, <<"operator", QNone>>}

PutBodies == {BEmpty, BFull1, BFull2, BFull1Org}
PatchBodies == {BTypeOut, BFp, BFpNull}

DeviceLocationGet(creds, pks) ==
    \E c \in creds, pk \in pks :
        DeviceLocationRequest(c[1], c[2], "GET", pk, BEmpty)

DeviceLocationDelete(creds, pks) ==
    \E c \in creds, pk \in pks :
        DeviceLocationRequest(c[1], c[2], "DELETE", pk, BEmpty)

DeviceLocationPut(creds, pks, bodies) ==
    \E c \in creds, pk \in pks, body \in bodies :
        DeviceLocationRequest(c[1], c[2], "PUT", pk, body)

DeviceLocationPatch(creds, pks, bodies) ==
    \E c \in creds, pk \in pks, body \in bodies :
        DeviceLocationRequest(c[1], c[2], "PATCH", pk, body)

\* bodies of the Location endpoints
LFull1A == Body({"location"}, WithOrg(Full1, "org_a"), TRUE, 0, None)
LFull2A == Body({"location"}, WithOrg(Full2, "org_a"), TRUE, 0, None)
LFull1B == Body({"location"}, WithOrg(Full1, "org_b"), TRUE, 0, None)
LFull1AFp == Body({"location", "floorplan"}, WithOrg(Full1, "org_a"), FALSE, 1, None)
LFull2AFp == Body({"location", "floorplan"}, WithOrg(Full2, "org_a"), FALSE, 1, None)
LocationPostBodies == {LFull1A, LFull2A, LFull1B, LFull1AFp, LFull2AFp}
LocationPutBodies == {LFull1A, LFull2A, LFull1B}
LocationPatchBodies == {BTypeOut, Body({"floorplan"}, NoPayload, FALSE, 1, None)}

LocationPost(users, bodies) ==
    \E user \in users, body \in bodies : LocationRequest(user, "POST", NoId, body)
LocationPut(users, bodies) ==
    \E user \in users, id \in LocIds, body \in bodies :
        LocationRequest(user, "PUT", id, body)
LocationPatch(users, bodies) ==
    \E user \in users, id \in LocIds, body \in bodies :
        LocationRequest(user, "PATCH", id, body)
LocationDelete(users) ==
    \E user \in users, id \in LocIds : LocationRequest(user, "DELETE", id, BEmpty)

FloorPlanPost(users) ==
    \E user \in users, l \in LocIds :
        FloorPlanRequest(user, "POST", NoId, FpBody({"floor", "location"}, l, 1))
FloorPlanPut(users) ==
    \E user \in users, id \in FpIds, l \in LocIds :
        FloorPlanRequest(user, "PUT", id, FpBody({"floor", "location"}, l, 1))
FloorPlanPatch(users) ==
    \E user \in users, id \in FpIds :
        FloorPlanRequest(user, "PATCH", id, FpBody({"floor"}, NoId, 2))
FloorPlanDelete(users) ==
    \E user \in users, id \in FpIds : FloorPlanRequest(user, "DELETE", id, BEmpty)

Operators == {"operator", "admin"}

Next ==
    \/ DeviceLocationGet(SomeCredentials, {"d1"})
    \/ DeviceLocationDelete(SomeCredentials, {"d1"})
    \/ DeviceLocationPut(SomeCredentials, {"d1"}, PutBodies)
    \/ DeviceLocationPatch(SomeCredentials, {"d1"}, PatchBodies)
    \/ LocationPost(Operators, LocationPostBodies)
    \/ LocationPut(Operators, LocationPutBodies)
    \/ LocationPatch(Operators, LocationPatchBodies)
    \/ LocationDelete(Operators)
    \/ FloorPlanPost(Operators)
    \/ FloorPlanPut(Operators)
    \/ FloorPlanPatch(Operators)
    \/ FloorPlanDelete(Operators)

Spec == Init /\ [][Next]_vars

\* The list views next to the requests that add and remove rows of both
\* organizations.
NextList ==
    \/ DeviceLocationPut({<<"anon", QKey("k1")>>, <<"anon", QKey("k2")>>},
                         Devices, {BFull1, BFull2})
    \/ LocationPost({"admin"}, {LFull1A, LFull2A, LFull1B})
    \/ LocationDelete({"admin"})
    \/ FloorPlanPost(Operators)
    \/ DeviceLocationDelete({<<"anon", QKey("k1")>>, <<"operator", QNone>>},
                            Devices)
    \/ ListRequest(Users)

SpecList == Init /\ [][NextList]_vars

\* The single-device endpoint under every credential, for every device id.
NextAuth ==
    \/ DeviceLocationGet(Credentials, DeviceIds)
    \/ DeviceLocationDelete(Credentials, DeviceIds)
    \/ DeviceLocationPut(Credentials, DeviceIds, {BFull1})
    \/ DeviceLocationPatch(Credentials, DeviceIds, {BTypeOut})

SpecAuth == Init /\ [][NextAuth]_vars

\* ------------------- the single-device endpoint, PUT requests step by step
\* Two requests may be in progress at once; each runs get_object() and
\* create_devicelocation() as the queries they are, then the handler.
\* The callers hold the key of the device, so the permission checks pass.
Creating(p) == proc[p].pc \in {"create_location", "clean_dl", "save_dl"}
FreeCount(table, ids) == Cardinality(ids \ IdsOf(table))

\* get_object(): super().get_object() and get_devicelocation()
PutBegin(p) ==
    /\ proc[p].pc \in {"idle", "done"}
    /\ \E pk \in Devices, body \in PutBodies :
         /\ device_lookup("anon", QKey(Device(pk).key), "PUT", pk) = 200
         /\ LET dl == devicelocation_of(Store, pk)
            IN /\ (dl = NoId =>
                     /\ FreeCount(locations, LocIds)
                          > Cardinality({q \in Procs : proc[q].pc = "create_location"})
                     /\ FreeCount(devicelocations, DlIds)
                          > Cardinality({q \in Procs : Creating(q)}))
               /\ proc' = [proc EXCEPT ![p] =
                    [pk |-> pk, loc |-> NoId, body |-> body, dl |-> dl,
                     status |-> 0,
                     pc |-> IF dl = NoId THEN "create_location" ELSE "handler",
                     tx |-> << >>]]
    /\ UNCHANGED <<store, resp>>

\* create_devicelocation(): location.full_clean(); location.save()
PutCreateLocation(p) ==
    /\ proc[p].pc = "create_location"
    /\ locations' = Insert(locations, LocIds, provisioned_location(proc[p].pk))
    /\ proc' = [proc EXCEPT ![p].pc = "clean_dl",
                            ![p].loc = FreeId(locations, LocIds)]
    /\ UNCHANGED <<floorplans, devicelocations, resp>>

\* create_devicelocation(): dl.full_clean()
PutCleanDl(p) ==
    /\ proc[p].pc = "clean_dl"
    /\ proc' = IF devicelocation_unique(Store, proc[p].pk)
               THEN [proc EXCEPT ![p].pc = "save_dl"]
               ELSE [proc EXCEPT ![p].pc = "done", ![p].status = 500]
    /\ UNCHANGED <<store, resp>>

\* create_devicelocation(): dl.save()
PutSaveDl(p) ==
    /\ proc[p].pc = "save_dl"
    /\ IF devicelocation_unique(Store, proc[p].pk)
       THEN /\ devicelocations' =
                 Insert(devicelocations, DlIds,
                        provisioned_devicelocation(proc[p].pk, proc[p].loc))
            /\ proc' = [proc EXCEPT ![p].pc = "handler",
                                    ![p].dl = FreeId(devicelocations, DlIds)]
       ELSE /\ devicelocations' = devicelocations
            /\ proc' = [proc EXCEPT ![p].pc = "done", ![p].status = 500]
    /\ UNCHANGED <<locations, floorplans, resp>>

\* UpdateModelMixin.update(): is_valid(), then save()
PutHandler(p) ==
    /\ proc[p].pc = "handler"
    /\ IF devicelocation_is_valid(Store, proc[p].dl, proc[p].body, FALSE)
       THEN /\ SetStore(devicelocation_update(Store, proc[p].dl, proc[p].body))
            /\ proc' = [proc EXCEPT ![p].pc = "done", ![p].status = 200]
       ELSE /\ UNCHANGED store
            /\ proc' = [proc EXCEPT ![p].pc = "done", ![p].status = 400]
    /\ UNCHANGED resp

NextRace ==
    \E p \in Procs :
        \/ PutBegin(p)
        \/ PutCreateLocation(p)
        \/ PutCleanDl(p)
        \/ PutSaveDl(p)
        \/ PutHandler(p)

SpecRace == Init /\ [][NextRace]_vars

\* ------------- the type change of a Location to outdoor, step by step
\* update() of the serializer as the statements it issues: the Location is
\* saved with its new type, the DeviceLocations on it are cleared, its
\* FloorPlans are deleted (the rows that still reference them go with them).
\* The statements run in one transaction: nothing is visible before commit.
Statements == <<"save_location", "clear_associations", "delete_floorplans">>

apply_statement(S, l, stmt) ==
    CASE stmt = "save_location" ->
           [S EXCEPT !.locations =
               Update(@, location_from_data(Row(S.locations, l), TypeOut))]
      [] stmt = "clear_associations" ->
           [S EXCEPT !.devicelocations =
               {IF r.location = l
                THEN [r EXCEPT !.floorplan = NoId, !.indoor = None] ELSE r
                : r \in @}]
      [] OTHER ->
           [S EXCEPT !.floorplans = Delete(@, FpsOfLocation(S, l)),
                     !.devicelocations =
                         {r \in @ : r.floorplan \notin FpsOfLocation(S, l)}]

RECURSIVE apply_statements(_, _, _)
apply_statements(S, l, tx) ==
    IF tx = << >> THEN S
    ELSE apply_statements(apply_statement(S, l, Head(tx)), l, Tail(tx))

\* a variant in which every statement commits on its own
in_transaction_never(stmt) == FALSE

\* the statements of update() run inside one transaction
in_transaction(stmt) == stmt \in {Statements[i] : i \in 1..Len(Statements)}

\* the rows before the requests: an indoor Location with a FloorPlan and the
\* association of d1 on it, alone or next to a second indoor Location
InitCascade ==
    /\ \E ls \in {{1}, {1, 2}} :
          locations =
             {[organization |-> "org_a", name |-> "n1", id |-> l,
               type |-> "indoor", is_mobile |-> FALSE, address |-> "a1",
               geometry |-> <<1, 2>>] : l \in ls}
    /\ floorplans = {[organization |-> "org_a", id |-> 1, location |-> 1,
                      floor |-> 1]}
    /\ devicelocations = {[id |-> 1, device |-> "d1", location |-> 1,
                           floorplan |-> 1, indoor |-> "1,2"]}
    /\ resp = NoResp
    /\ proc = Idle

\* is_valid() passed: a PATCH of the type to outdoor, on the Location detail
\* endpoint by an operator (pk = NoDevice) or on the single-device endpoint
\* with the key of the device, found the Location indoor
TypeChangeBegin(p) ==
    /\ proc[p].pc \in {"idle", "done"}
    /\ \E l \in IdsOf(locations), pk \in {NoDevice, "d1"} :
         /\ Row(locations, l).type = "indoor"
         /\ IF pk = NoDevice
            THEN /\ protected_lookup("operator", "PATCH", locations, l) = 200
                 /\ location_is_valid(Store, "operator", l, BTypeOut, TRUE)
            ELSE /\ get_object_status(Store, "anon", QKey(Device(pk).key),
                                      "PATCH", pk) = 200
                 /\ Row(devicelocations, devicelocation_of(Store, pk)).location = l
                 /\ devicelocation_is_valid(Store, devicelocation_of(Store, pk),
                                            BTypeOut, TRUE)
         /\ proc' = [proc EXCEPT ![p] =
                [pk |-> pk, loc |-> l, body |-> BTypeOut, dl |-> NoId,
                 status |-> 0, pc |-> Statements[1], tx |-> << >>]]
    /\ UNCHANGED <<store, resp>>

\* one statement of update()
TypeChangeStatement(p) ==
    LET i == CHOOSE k \in 1..Len(Statements) : Statements[k] = proc[p].pc
        next == IF i < Len(Statements) THEN Statements[i + 1] ELSE "commit"
    IN /\ proc[p].pc \in {Statements[k] : k \in 1..Len(Statements)}
       /\ IF in_transaction(proc[p].pc)
          THEN /\ proc' = [proc EXCEPT ![p].pc = next,
                                       ![p].tx = Append(@, proc[p].pc)]
               /\ UNCHANGED store
          ELSE /\ SetStore(apply_statement(Store, proc[p].loc, proc[p].pc))
               /\ proc' = [proc EXCEPT ![p].pc = next]
       /\ UNCHANGED resp

\* the end of the transaction: its statements become visible together
TypeChangeCommit(p) ==
    /\ proc[p].pc = "commit"
    /\ SetStore(apply_statements(Store, proc[p].loc, proc[p].tx))
    /\ proc' = [proc EXCEPT ![p].pc = "done", ![p].status = 200,
                            ![p].tx = << >>]
    /\ UNCHANGED resp

\* a concurrent reader: GET of a Location by an operator
Reader ==
    /\ \E l \in LocIds :
         resp' = [NoResp EXCEPT
                    !.endpoint = "location", !.user = "operator",
                    !.verb = "GET", !.id = l,
                    !.status = location_view(Store, "operator", "GET", l,
                                             BEmpty).status,
                    !.had_fp = HadFp(Store, l)]
    /\ UNCHANGED <<store, proc>>

\* next to them, the device reports its coordinates
NextCascade ==
    \/ \E p \in Procs :
          \/ TypeChangeBegin(p)
          \/ TypeChangeStatement(p)
          \/ TypeChangeCommit(p)
    \/ Reader
    \/ DeviceLocationPatch({<<"anon", QKey("k1")>>}, {"d1"}, {BGeom})

SpecCascade == InitCascade /\ [][NextCascade]_vars

\* ======================================================== the claims
LocationOf(row) == Row(locations, row.location)
OnDevice == resp.endpoint = "device_location"
KeyOf(qs) == query_params_get_key(qs)
KeyMatches(qs, pk) == pk \in Devices /\ truthy(KeyOf(qs)) /\ KeyOf(qs) = Device(pk).key

\* C1: in every reachable state no FloorPlan row references a Location whose
\* type is outdoor, a FloorPlan update that changes the location included.
C1_NoFloorPlanOnOutdoor ==
    \A f \in floorplans :
        /\ f.location \in IdsOf(locations)
        /\ LocationOf(f).type = "indoor"

\* C2: in every reachable state a DeviceLocation whose Location is outdoor
\* has no floorplan and an indoor that is empty or null.
C2_OutdoorAssociationIsBare ==
    \A r \in devicelocations :
        LocationOf(r).type = "outdoor" =>
            r.floorplan = NoId /\ r.indoor \in {"", None}

\* C2 witness: a PATCH to outdoor was served and left the association of the
\* device on an outdoor Location with floorplan and indoor cleared.
C2_Witness ==
    /\ OnDevice /\ resp.verb = "PATCH" /\ resp.body = BTypeOut
    /\ resp.status = 200
    /\ \E r \in devicelocations :
          /\ r.device = resp.pk
          /\ LocationOf(r).type = "outdoor"
          /\ r.floorplan = NoId /\ r.indoor = None

\* C3: on the single-device endpoint the device-key tier grants access if
\* and only if the key parameter is non-empty and equals the key of the
\* device addressed; a match serves the request whatever the caller's
\* organizations, and no other key, nor an empty one, is ever served there.
C3_KeyTier ==
    (OnDevice /\ resp.pk \in Devices) =>
        /\ KeyMatches(resp.qs, resp.pk) =>
              IF resp.had_dl \/ resp.verb = "PUT"
              THEN resp.status \in {200, 204, 400}
              ELSE resp.status = 404
        /\ (~KeyMatches(resp.qs, resp.pk)
            /\ (resp.user = "anon" \/ resp.qs # QNone)) =>
              \/ resp.status = 403
              \/ /\ resp.status = 404
                 /\ is_authenticated(resp.user) /\ ~is_superuser(resp.user)
                 /\ Device(resp.pk).organization
                        \notin organizations_managed(resp.user)

\* C3 witness: an operator of org_a wrote the association of a device of
\* org_b with that device's key.
C3_Witness ==
    /\ OnDevice /\ resp.user = "operator" /\ resp.pk = "d2"
    /\ resp.qs = QKey("k2") /\ resp.verb = "PUT" /\ resp.status = 200

C5_NoKey403 ==
    [][(/\ resp'.endpoint = "device_location"
        /\ resp'.user = "anon"
        /\ resp'.pk \in Devices
        /\ ~KeyMatches(resp'.qs, resp'.pk))
       => (resp'.status = 403 /\ UNCHANGED store)]_vars

\* C5 witness: a PUT with the key of another device, on a device without
\* association, was answered 403.
C5_Witness ==
    /\ OnDevice /\ resp.user = "anon" /\ resp.pk = "d1"
    /\ resp.qs = QKey("k2") /\ resp.verb = "PUT"
    /\ ~resp.had_dl /\ resp.status = 403
    /\ DlsOfDevice(Store, "d2") # {}

\* The answer to a caller without credentials, on the current rows.
AnonStatus(qs, verb, pk) ==
    device_location_view(Store, "anon", qs, verb, pk, BFull1).status
NoValidKey(qs, pk) == ~KeyMatches(qs, pk)

\* C6 (as claimed): a caller without valid credential gets the same answer
\* for any two device ids, existing or not, with or without association.
C6_NoExistenceLeak ==
    \A qs \in Queries, verb \in Verbs, a \in DeviceIds, b \in DeviceIds :
        (NoValidKey(qs, a) /\ NoValidKey(qs, b)) =>
            AnonStatus(qs, verb, a) = AnonStatus(qs, verb, b)

\* C6 (amended): a caller without valid credential gets the same answer for
\* any two existing devices, with or without association.
C6_NoAssociationLeak ==
    \A qs \in Queries, verb \in Verbs, a \in Devices, b \in Devices :
        (NoValidKey(qs, a) /\ NoValidKey(qs, b)) =>
            AnonStatus(qs, verb, a) = AnonStatus(qs, verb, b)

\* C6 witness: one device has an association, the other has none, and a
\* caller without credentials has just been answered.
C6_Witness ==
    /\ OnDevice /\ resp.user = "anon" /\ resp.qs = QNone /\ resp.pk = "d2"
    /\ resp.verb = "GET" /\ resp.status = 403
    /\ DlsOfDevice(Store, "d1") # {} /\ DlsOfDevice(Store, "d2") = {}

\* C7: a GET with the device's key on a device without association answers
\* 200 and leaves exactly one provisioned Location and one DeviceLocation.
C7_GetProvisions ==
    (OnDevice /\ resp.first_get) =>
        /\ resp.status = 200
        /\ Cardinality(DlsOfDevice(Store, resp.pk)) = 1
        /\ \A r \in devicelocations :
              r.device = resp.pk =>
                 /\ r.floorplan = NoId /\ r.indoor = ""
                 /\ LocationOf(r) = [provisioned_location(resp.pk)
                                        EXCEPT !.id = r.location]

\* C8: after two successive GETs with the device's key on a device that had
\* no association there is exactly one DeviceLocation of the device, and the
\* second GET is answered 200.
C8_GetTwice ==
    (OnDevice /\ resp.second_get) =>
        /\ resp.status = 200
        /\ Cardinality(DlsOfDevice(Store, resp.pk)) = 1

\* C9: when the requests in progress have finished, no device has more than
\* one DeviceLocation row, in every interleaving of their steps.
C9_AtMostOneAssociation ==
    (\A p \in Procs : proc[p].pc = "done") =>
        \A d \in Devices : Cardinality(DlsOfDevice(Store, d)) <= 1

\* C9 witness: two requests for the same device both took the create path
\* and have finished; one association persists.
C9_Witness ==
    /\ \A p \in Procs : proc[p].pc = "done" /\ proc[p].pk = "d1"
                        /\ proc[p].loc # NoId
    /\ Cardinality(DlsOfDevice(Store, "d1")) = 1

\* C10: a request answered with a validation error writes nothing.
C10_RejectedWritesNothing ==
    [][resp'.status = 400 => UNCHANGED store]_vars

\* A request the permission checks let through: the key of the device, or a
\* session of a user with the model permission who manages the device.
OperatorMay(user, qs, verb, pk) ==
    /\ pk \in Devices /\ qs = QNone /\ is_authenticated(user)
    /\ DjangoModelPermissions_has_permission(user, verb)
    /\ (is_superuser(user)
        \/ Device(pk).organization \in organizations_managed(user))
Authorized(user, qs, verb, pk) ==
    KeyMatches(qs, pk) \/ OperatorMay(user, qs, verb, pk)

\* C11: an authorized PATCH or DELETE on the single-device endpoint of a
\* device without DeviceLocation is answered 404 and leaves every table as it
\* was: no Location and no DeviceLocation is created.
C11_NoAssociation404 ==
    [][(/\ resp'.endpoint = "device_location"
        /\ resp'.verb \in {"PATCH", "DELETE"}
        /\ Authorized(resp'.user, resp'.qs, resp'.verb, resp'.pk)
        /\ DlsOfDevice(Store, resp'.pk) = {})
       => (resp'.status = 404 /\ UNCHANGED store)]_vars

\* C11 witness: a PATCH with the device's key found no association and was
\* answered 404, while the other device has one.
C11_Witness ==
    /\ OnDevice /\ resp.verb = "PATCH" /\ resp.pk = "d1"
    /\ resp.qs = QKey("k1") /\ ~resp.had_dl /\ resp.status = 404
    /\ DlsOfDevice(Store, "d1") = {} /\ DlsOfDevice(Store, "d2") # {}

\* the stored Location carries every field value of the payload
CarriesPayload(loc, payload) ==
    /\ loc.type = payload.type /\ loc.is_mobile = payload.is_mobile
    /\ loc.name = payload.name /\ loc.address = payload.address
    /\ loc.geometry = payload.geometry.coordinates

\* C12: an authorized PUT with a complete location payload on a device that
\* has no DeviceLocation is answered 200; afterwards the device has exactly
\* one DeviceLocation and its Location carries type, is_mobile, name, address
\* and geometry of the payload.
C12_PutCreates ==
    (/\ OnDevice /\ resp.verb = "PUT" /\ ~resp.had_dl
     /\ Authorized(resp.user, resp.qs, resp.verb, resp.pk)
     /\ has_location(resp.body)
     /\ LocFields \subseteq resp.body.location.given) =>
        /\ resp.status = 200
        /\ Cardinality(DlsOfDevice(Store, resp.pk)) = 1
        /\ \A r \in devicelocations :
              r.device = resp.pk =>
                 /\ r.location \in IdsOf(locations)
                 /\ CarriesPayload(LocationOf(r), resp.body.location)

\* C12 witness: a PUT with a complete indoor payload created the association
\* of a device that had none.
C12_Witness ==
    /\ OnDevice /\ resp.verb = "PUT" /\ ~resp.had_dl /\ resp.body = BFull2
    /\ resp.status = 200
    /\ \E r \in devicelocations :
          r.device = resp.pk /\ LocationOf(r).type = "indoor"
          /\ LocationOf(r).geometry = <<1, 2>>

MayWriteLocation(user, verb, id) ==
    /\ user \in Operators
    /\ (verb # "POST" =>
          /\ id \in IdsOf(locations)
          /\ (is_superuser(user)
              \/ Row(locations, id).organization \in organizations_managed(user)))

\* the type the Location has once the payload is applied
ResolvedType(id, payload) ==
    IF "type" \in payload.given THEN payload.type
    ELSE Row(locations, id).type

C16_FloorplanOfSameLocation ==
    \A r \in devicelocations :
        r.floorplan # NoId =>
            /\ r.floorplan \in IdsOf(floorplans)
            /\ Row(floorplans, r.floorplan).location = r.location

\* the caller's organizations cover the row
Manages(user, row) ==
    is_superuser(user) \/ row.organization \in organizations_managed(user)

\* C17 (as claimed): a list of Locations, FloorPlans or GeoJSON locations
\* holds exactly the rows of the organizations the caller manages, every
\* row for a superuser.
C17_ListsEveryManagedRow ==
    (resp.endpoint \in ListEndpoints /\ resp.status = 200) =>
        resp.listed =
            {x.id : x \in {y \in (IF resp.endpoint = "list_floorplan"
                                   THEN floorplans ELSE locations) :
                              Manages(resp.user, y)}}

\* C17 (amended): the lists of Locations and FloorPlans hold exactly the rows
\* of the organizations the caller manages, every row for a superuser; the
\* GeoJSON list holds exactly those among them that have a DeviceLocation.
C17_ListsScoped ==
    (resp.endpoint \in ListEndpoints /\ resp.status = 200) =>
        resp.listed =
            {x.id : x \in {y \in (IF resp.endpoint = "list_floorplan"
                                   THEN floorplans ELSE locations) :
                              /\ Manages(resp.user, y)
                              /\ (resp.endpoint = "location_geojson" =>
                                    \E r \in devicelocations :
                                        r.location = y.id)}}

\* C17 witness: Locations of both organizations have a DeviceLocation and
\* the GeoJSON list of the operator of org_a holds the one of org_a only.
C17_Witness ==
    /\ resp.endpoint = "location_geojson" /\ resp.user = "operator"
    /\ resp.status = 200 /\ Cardinality(resp.listed) = 1
    /\ \E a \in locations, b \in locations :
          /\ a.organization = "org_a" /\ b.organization = "org_b"
          /\ resp.listed = {a.id}
          /\ \E r \in devicelocations : r.location = b.id

\* C18: an authorized DELETE on the single-device endpoint of a device that
\* has a DeviceLocation is answered 204 and removes that row only: every
\* Location and FloorPlan row and every other DeviceLocation stay as they are.
C18_DeleteRemovesAssociationOnly ==
    [][(/\ resp'.endpoint = "device_location" /\ resp'.verb = "DELETE"
        /\ Authorized(resp'.user, resp'.qs, resp'.verb, resp'.pk)
        /\ DlsOfDevice(Store, resp'.pk) # {})
       => (/\ resp'.status = 204
           /\ locations' = locations
           /\ floorplans' = floorplans
           /\ devicelocations' =
                 {r \in devicelocations : r.device # resp'.pk})]_vars

\* C18 witness: a DELETE was answered 204; the indoor Location the device
\* was on and its FloorPlan are still there, as is the other device's
\* DeviceLocation.
C18_Witness ==
    /\ OnDevice /\ resp.verb = "DELETE" /\ resp.pk = "d1"
    /\ resp.had_dl /\ resp.status = 204
    /\ DlsOfDevice(Store, "d1") = {} /\ DlsOfDevice(Store, "d2") # {}
    /\ \E a \in locations :
          /\ a.organization = "org_a" /\ a.type = "indoor"
          /\ FpsOfLocation(Store, a.id) # {}
          /\ \A r \in devicelocations : r.location # a.id

\* C19: every Location row that a request to the single-device endpoint
\* creates or changes carries the organization of the device addressed,
\* whatever organization the payload names.
C19_LocationOfDeviceOrganization ==
    [][resp'.endpoint = "device_location" =>
          \A a \in locations' :
              a \notin locations =>
                  a.organization = Device(resp'.pk).organization]_vars

\* C19 witness: a PUT whose payload names org_b was served on the device of
\* org_a and its Location, with the payload's name, is of org_a.
C19_Witness ==
    /\ OnDevice /\ resp.verb = "PUT" /\ resp.pk = "d1"
    /\ resp.body = BFull1Org /\ resp.status = 200
    /\ \E r \in devicelocations :
          /\ r.device = "d1"
          /\ LocationOf(r).name = "n1"
          /\ LocationOf(r).organization = "org_a"

C21_NullFloorplanDetaches ==
    [][(/\ resp'.endpoint = "device_location" /\ resp'.verb = "PATCH"
        /\ resp'.body.has = {"floorplan"} /\ resp'.body.floorplan.null
        /\ Authorized(resp'.user, resp'.qs, resp'.verb, resp'.pk)
        /\ \E r \in devicelocations :
              r.device = resp'.pk /\ r.floorplan # NoId)
       => (/\ resp'.status = 200
           /\ locations' = locations
           /\ \A r \in devicelocations :
                 r.device = resp'.pk =>
                    [r EXCEPT !.floorplan = NoId, !.indoor = None]
                        \in devicelocations'
           /\ IdsOf(devicelocations') = IdsOf(devicelocations))]_vars

\* C21 witness: a PATCH with a null floorplan was served on a DeviceLocation
\* that had a floorplan; the row is still there, on its indoor Location,
\* with floorplan and indoor null.
C21_Witness ==
    /\ OnDevice /\ resp.verb = "PATCH" /\ resp.body = BFpNull
    /\ resp.had_fp /\ resp.status = 200
    /\ \E r \in devicelocations :
          /\ r.device = resp.pk /\ r.floorplan = NoId /\ r.indoor = None
          /\ LocationOf(r).type = "indoor"

\* the step is the request that follows a served deletion of a Location
AfterLocationDelete ==
    resp.endpoint = "location" /\ resp.verb = "DELETE" /\ resp.status = 204

\* C22: a served DELETE of a Location removes every DeviceLocation that
\* references it; the authorized GET or PUT on the single-device endpoint
\* that comes next, on a device left without DeviceLocation, gives the device
\* a DeviceLocation on a Location created by that request.
C22_ReprovisionAfterDelete ==
    [][/\ (/\ resp'.endpoint = "location" /\ resp'.verb = "DELETE"
           /\ resp'.status = 204)
          => (/\ resp'.id \notin IdsOf(locations')
              /\ \A r \in devicelocations' : r.location # resp'.id)
       /\ (/\ AfterLocationDelete
           /\ resp'.endpoint = "device_location"
           /\ resp'.verb \in {"GET", "PUT"}
           /\ Authorized(resp'.user, resp'.qs, resp'.verb, resp'.pk)
           /\ DlsOfDevice(Store, resp'.pk) = {})
          => \E r \in devicelocations' :
                /\ r.device = resp'.pk
                /\ r.location \notin IdsOf(locations)
                /\ r.location \in IdsOf(locations')]_vars

C24_UnknownDevice404 ==
    [][(resp'.endpoint = "device_location" /\ resp'.pk \notin Devices)
       => (/\ resp'.status = 404
           /\ locations' = locations /\ floorplans' = floorplans
           /\ devicelocations' = devicelocations)]_vars

\* C24 (amended): a request on the single-device endpoint for a device id
\* that does not exist leaves every table as it was; it is answered 404,
\* except that an authenticated caller whose query string holds no "key="
\* and who lacks the model permission of the verb is answered 403.
C24_UnknownDevice404OrDenied ==
    [][(resp'.endpoint = "device_location" /\ resp'.pk \notin Devices)
       => (/\ locations' = locations /\ floorplans' = floorplans
           /\ devicelocations' = devicelocations
           /\ resp'.status =
                 IF /\ resp'.user # "anon"
                    /\ ~contains_key_eq(resp'.qs)
                    /\ ~DjangoModelPermissions_has_permission(
                           resp'.user, resp'.verb)
                 THEN 403 ELSE 404)]_vars

\* C24 witness: a request that carries the key of a device was answered 404
\* on a device id that does not exist.
C24_Witness ==
    /\ OnDevice /\ resp.pk = NoDevice /\ resp.status = 404
    /\ resp.qs = QKey("k1") /\ resp.verb = "PUT"

\* C25: on the single-device endpoint a request that fails both tiers of the
\* authorization check (no matching device key, and not an operator of the
\* device's organization holding the permission of the verb) is answered 403
\* or 404 and creates, modifies and deletes no row, whatever the verb and
\* whether or not the device has an association.
C25_DeniedRequestWritesNothing ==
    [][(/\ resp'.endpoint = "device_location"
        /\ ~Authorized(resp'.user, resp'.qs, resp'.verb, resp'.pk))
       => (/\ resp'.status \in {403, 404}
           /\ locations' = locations /\ floorplans' = floorplans
           /\ devicelocations' = devicelocations)]_vars

\* C25 witness: a PUT by an authenticated caller without the change
\* permission, on a device without association, was answered 403 and the
\* device still has no association.
C25_Witness ==
    /\ OnDevice /\ resp.user = "viewer" /\ resp.qs = QNone
    /\ resp.verb = "PUT" /\ resp.pk = "d1" /\ resp.status = 403
    /\ ~resp.had_dl /\ DlsOfDevice(Store, "d1") = {}
    /\ DlsOfDevice(Store, "d2") # {}

\* C26: on the single-device endpoint the permission classes and the
\* queryset filter are chosen by the same test, so that DevicePermission
\* decides exactly the requests whose queryset is not filtered by
\* organization; and an authenticated caller whose query string holds no
\* non-empty key parameter, who holds the permission of the verb and manages
\* the device's organization (or is superuser), is not answered 403.
C26_TiersAgree ==
    [][(resp'.endpoint = "device_location" /\ resp'.pk \in Devices)
       => (/\ ("DevicePermission" \in get_permissions(resp'.user, resp'.qs))
                <=> (resp'.user = "anon"
                     \/ truthy(query_params_get_key(resp'.qs)))
           /\ (/\ resp'.user # "anon"
               /\ ~truthy(query_params_get_key(resp'.qs))
               /\ DjangoModelPermissions_has_permission(resp'.user, resp'.verb)
               /\ (is_superuser(resp'.user)
                   \/ Device(resp'.pk).organization
                         \in organizations_managed(resp'.user)))
              => resp'.status # 403)]_vars

====
